---- MODULE Spec2Model ----
(***************************************************************************)
(* Model of the two packIso.ps1 repair scripts, fix_lines.py (line scan)   *)
(* and fix_lines2.py (literal substring replacement).                      *)
(*                                                                         *)
(* Text is a sequence of tokens.  One token stands for one character or    *)
(* for one piece of the known statement that neither starts nor ends with  *)
(* whitespace and holds no line break:                                     *)
(*   "s" space      "n" line feed      "r" carriage return                 *)
(*   "A" GetEnvironmentVariable("Path", "Machine")                         *)
(*   "B" GetEnvironmentVariable("Path", "User")                            *)
(*   "H" $env:Path = [System.Environment]::     "P" + ";" +                *)
(*   "S" [System.Environment]::                                            *)
(*   "x" any other non-whitespace character                                *)
(***************************************************************************)
EXTENDS Integers, Sequences, FiniteSets, TLC

\* ------------------------------------------------------------------ bounds
MaxLen == 4
MaxUnits == 2
MinIndent == 6
MaxIndent == 13
MaxRuns == 2

\* ------------------------------------------------------- string primitives
markerA == "A"
markerB == "B"

\* the characters str.rstrip() / str.lstrip() remove when called with no argument
Whitespace == {"s", "n", "r"}

\* Python's `sub in line`
In(tok, line) == \E j \in 1..Len(line) : line[j] = tok

Min(S) == CHOOSE m \in S : \A k \in S : m <= k
Max(S) == CHOOSE m \in S : \A k \in S : m >= k

\* the sequences of ss one after the other
RECURSIVE Flat(_)
Flat(ss) ==
  IF Len(ss) = 0 THEN <<>>
  ELSE IF Len(ss) = 1 THEN ss[1]
  ELSE LET m == Len(ss) \div 2 IN
       Flat(SubSeq(ss, 1, m)) \o Flat(SubSeq(ss, m + 1, Len(ss)))

\* str.rstrip(): everything after the last non-whitespace character goes
rstrip(l) ==
  LET NW == {j \in 1..Len(l) : l[j] \notin Whitespace} IN
  IF NW = {} THEN <<>> ELSE SubSeq(l, 1, Max(NW))

\* str.lstrip(): everything before the first non-whitespace character goes
lstrip(l) ==
  LET NW == {j \in 1..Len(l) : l[j] \notin Whitespace} IN
  IF NW = {} THEN <<>> ELSE SubSeq(l, Min(NW), Len(l))

\* text-mode read with newline=None: "\r\n" and a lone "\r" both become "\n"
Decode(bytes) ==
  Flat([j \in 1..Len(bytes) |->
          IF bytes[j] = "r" THEN <<"n">>
          ELSE IF bytes[j] = "n" /\ j > 1 /\ bytes[j - 1] = "r" THEN <<>>
          ELSE <<bytes[j]>>])

\* text-mode write with newline=None: every "\n" becomes os.linesep
Encode(text, sep) ==
  Flat([j \in 1..Len(text) |-> IF text[j] = "n" THEN sep ELSE <<text[j]>>])

\* f.readlines(): the lines of the text, each keeping its "\n"
RECURSIVE readlines(_)
readlines(text) ==
  IF text = <<>> THEN <<>>
  ELSE LET NL == {j \in 1..Len(text) : text[j] = "n"} IN
       IF NL = {} THEN <<text>>
       ELSE <<SubSeq(text, 1, Min(NL))>>
              \o readlines(SubSeq(text, Min(NL) + 1, Len(text)))

\* f.writelines(ls): the lines one after the other, nothing added
writelines(ls) == Flat(ls)

\* the positions at which old occurs in text
Occurrences(text, old) ==
  {p \in 1..(Len(text) - Len(old) + 1) : SubSeq(text, p, p + Len(old) - 1) = old}

\* str.replace(old, new): left to right, non-overlapping occurrences
RECURSIVE Replace(_, _, _)
Replace(text, old, new) ==
  IF Occurrences(text, old) = {} THEN text
  ELSE LET p == Min(Occurrences(text, old)) IN
       SubSeq(text, 1, p - 1) \o new
         \o Replace(SubSeq(text, p + Len(old), Len(text)), old, new)

\* ------------------------------------------------------------ fix_lines.py
\* lines[i] with the code's 0-based index
At(ls, k) == ls[k + 1]

\* line 14: both markers on the line
IsComplete(line) == In(markerA, line) /\ In(markerB, line)

\* line 17: first marker on the line and a following line exists
HasNext(ls, k) == In(markerA, At(ls, k)) /\ k + 1 < Len(ls)

\* line 20: the following line holds the second marker
NextHasUser(ls, k) == In(markerB, At(ls, k + 1))

\* line 22
Combined(line, next_line) == rstrip(line) \o <<"s">> \o lstrip(next_line)

\* line 24: i += 2
AfterJoin_skipless(k) == k + 1
AfterJoin(k) == k + 2

\* lines 16 and 27: the append of the first branch, then the append after the if
CompleteAppends(fl, line) == Append(Append(fl, line), line)

\* line 27 alone
PassAppend_stripped(fl, line) == Append(fl, rstrip(line))
PassAppend(fl, line) == Append(fl, line)

\* ----------------------------------------------------------- fix_lines2.py
Spaces(k) == [j \in 1..k |-> "s"]

\* `$env:Path = [System.Environment]::GetEnvironmentVariable("Path", "Machine") + ";" +`
StmtHead == <<"H", "A", "s", "P">>
\* `[System.Environment]::GetEnvironmentVariable("Path", "User")`
StmtTail == <<"S", "B">>

Before8_narrow == Spaces(7) \o StmtHead \o <<"n", "s">> \o StmtTail
Before8 == Spaces(8) \o StmtHead \o <<"n", "s">> \o StmtTail
After8 == Spaces(8) \o StmtHead \o <<"s">> \o StmtTail
Before12 == Spaces(12) \o StmtHead \o <<"n", "s">> \o StmtTail
After12 == Spaces(12) \o StmtHead \o <<"s">> \o StmtTail

fixes == << <<Before8, After8>>, <<Before12, After12>> >>

\* lines 19-20, whole loop
RECURSIVE ApplyFixes(_, _)
ApplyFixes(text, k) ==
  IF k > Len(fixes) THEN text
  ELSE ApplyFixes(Replace(text, fixes[k][1], fixes[k][2]), k + 1)

\* ------------------------------------------------------------------ inputs
Alphabet == {"s", "n", "r", "A", "B", "x"}
CharDocs == UNION {[1..m -> Alphabet] : m \in 0..MaxLen}

SplitUnit(k) == Spaces(k) \o StmtHead \o <<"n", "s">> \o StmtTail \o <<"n">>
JoinedUnit(k) == Spaces(k) \o StmtHead \o <<"s">> \o StmtTail \o <<"n">>
Units == {SplitUnit(k) : k \in MinIndent..MaxIndent}
           \cup {JoinedUnit(8), JoinedUnit(12), <<"x", "n">>}
UnitDocs == {writelines(us) : us \in UNION {[1..m -> Units] : m \in 1..MaxUnits}}

Docs == CharDocs \cup UnitDocs

\* ------------------------------------------------------------------- state
VARIABLES script, linesep, disk, exists, pc, rfile, wfile,
          lines, i, fixed_lines, content, fi, printed, err,
          orig, origExists, runs, prev

vars == <<script, linesep, disk, exists, pc, rfile, wfile,
          lines, i, fixed_lines, content, fi, printed, err,
          orig, origExists, runs, prev>>

env == <<script, linesep, orig, origExists, runs, prev>>

Init ==
  /\ script \in {1, 2}
  /\ linesep \in {<<"n">>, <<"r", "n">>}
  /\ exists \in BOOLEAN
  /\ disk \in (IF exists THEN Docs ELSE {<<>>})
  /\ pc = "start"
  /\ rfile = "none" /\ wfile = "none"
  /\ lines = <<>> /\ i = 0 /\ fixed_lines = <<>>
  /\ content = <<>> /\ fi = 1
  /\ printed = 0 /\ err = "none"
  /\ orig = disk /\ origExists = exists
  /\ runs = 1 /\ prev = <<>>

\* line 4: open(..., 'r') succeeds
OpenRead ==
  /\ pc = "start" /\ exists
  /\ rfile' = "open" /\ pc' = "opened"
  /\ UNCHANGED <<disk, exists, wfile, lines, i, fixed_lines, content, fi, printed, err>>
  /\ UNCHANGED env

\* line 4: open(..., 'r') raises (no such file, or permission denied)
OpenReadFail_swallowed ==
  /\ pc = "start"
  /\ pc' = "towrite"
  /\ UNCHANGED <<disk, exists, rfile, wfile, lines, i, fixed_lines, content, fi, printed, err>>
  /\ UNCHANGED env

OpenReadFail ==
  /\ pc = "start"
  /\ pc' = "error" /\ err' = "read"
  /\ UNCHANGED <<disk, exists, rfile, wfile, lines, i, fixed_lines, content, fi, printed>>
  /\ UNCHANGED env

\* line 5: the read raises (decoding or I/O error); the with block closes the file
ReadFail ==
  /\ pc = "opened"
  /\ rfile' = "closed" /\ pc' = "error" /\ err' = "read"
  /\ UNCHANGED <<disk, exists, wfile, lines, i, fixed_lines, content, fi, printed>>
  /\ UNCHANGED env

\* fix_lines.py lines 4-9
ReadLines ==
  /\ pc = "opened" /\ script = 1
  /\ lines' = readlines(Decode(disk))
  /\ rfile' = "closed"
  /\ fixed_lines' = <<>> /\ i' = 0
  /\ pc' = "loop"
  /\ UNCHANGED <<disk, exists, wfile, content, fi, printed, err>>
  /\ UNCHANGED env

\* fix_lines.py lines 14-16, 27-28
KeepComplete ==
  /\ pc = "loop" /\ script = 1 /\ i < Len(lines)
  /\ IsComplete(At(lines, i))
  /\ fixed_lines' = CompleteAppends(fixed_lines, At(lines, i))
  /\ i' = i + 1
  /\ UNCHANGED <<disk, exists, pc, rfile, wfile, lines, content, fi, printed, err>>
  /\ UNCHANGED env

\* fix_lines.py lines 17-25
Combine ==
  /\ pc = "loop" /\ script = 1 /\ i < Len(lines)
  /\ ~IsComplete(At(lines, i))
  /\ HasNext(lines, i) /\ NextHasUser(lines, i)
  /\ fixed_lines' = Append(fixed_lines, Combined(At(lines, i), At(lines, i + 1)))
  /\ i' = AfterJoin(i)
  /\ UNCHANGED <<disk, exists, pc, rfile, wfile, lines, content, fi, printed, err>>
  /\ UNCHANGED env

\* fix_lines.py lines 27-28, no branch taken (or the inner if at line 20 false)
PassThrough ==
  /\ pc = "loop" /\ script = 1 /\ i < Len(lines)
  /\ ~IsComplete(At(lines, i))
  /\ ~(HasNext(lines, i) /\ NextHasUser(lines, i))
  /\ fixed_lines' = PassAppend(fixed_lines, At(lines, i))
  /\ i' = i + 1
  /\ UNCHANGED <<disk, exists, pc, rfile, wfile, lines, content, fi, printed, err>>
  /\ UNCHANGED env

\* fix_lines.py line 10, condition false
LoopExit ==
  /\ pc = "loop" /\ script = 1 /\ i >= Len(lines)
  /\ pc' = "towrite"
  /\ UNCHANGED <<disk, exists, rfile, wfile, lines, i, fixed_lines, content, fi, printed, err>>
  /\ UNCHANGED env

\* fix_lines2.py lines 4-5
ReadContent ==
  /\ pc = "opened" /\ script = 2
  /\ content' = Decode(disk)
  /\ rfile' = "closed"
  /\ fi' = 1
  /\ pc' = "fix"
  /\ UNCHANGED <<disk, exists, wfile, lines, i, fixed_lines, printed, err>>
  /\ UNCHANGED env

\* fix_lines2.py lines 19-20, one iteration
ApplyFix ==
  /\ pc = "fix" /\ script = 2 /\ fi <= Len(fixes)
  /\ content' = Replace(content, fixes[fi][1], fixes[fi][2])
  /\ fi' = fi + 1
  /\ UNCHANGED <<disk, exists, pc, rfile, wfile, lines, i, fixed_lines, printed, err>>
  /\ UNCHANGED env

\* fix_lines2.py line 19, list exhausted
FixesDone ==
  /\ pc = "fix" /\ script = 2 /\ fi > Len(fixes)
  /\ pc' = "towrite"
  /\ UNCHANGED <<disk, exists, rfile, wfile, lines, i, fixed_lines, content, fi, printed, err>>
  /\ UNCHANGED env

\* open(..., 'w') succeeds: the file is created or truncated
OpenWrite ==
  /\ pc = "towrite"
  /\ disk' = <<>> /\ exists' = TRUE
  /\ wfile' = "open" /\ pc' = "writing"
  /\ UNCHANGED <<rfile, lines, i, fixed_lines, content, fi, printed, err>>
  /\ UNCHANGED env

\* open(..., 'w') raises (permission denied)
OpenWriteFail ==
  /\ pc = "towrite"
  /\ pc' = "error" /\ err' = "write"
  /\ UNCHANGED <<disk, exists, rfile, wfile, lines, i, fixed_lines, content, fi, printed>>
  /\ UNCHANGED env

\* fix_lines.py lines 31-32
WriteLines ==
  /\ pc = "writing" /\ script = 1
  /\ disk' = Encode(writelines(fixed_lines), linesep)
  /\ wfile' = "closed" /\ pc' = "written"
  /\ UNCHANGED <<exists, rfile, lines, i, fixed_lines, content, fi, printed, err>>
  /\ UNCHANGED env

\* fix_lines2.py lines 23-24
WriteContent ==
  /\ pc = "writing" /\ script = 2
  /\ disk' = Encode(content, linesep)
  /\ wfile' = "closed" /\ pc' = "written"
  /\ UNCHANGED <<exists, rfile, lines, i, fixed_lines, content, fi, printed, err>>
  /\ UNCHANGED env

\* the write raises; the with block closes the truncated file
WriteFail ==
  /\ pc = "writing"
  /\ wfile' = "closed" /\ pc' = "error" /\ err' = "write"
  /\ UNCHANGED <<disk, exists, rfile, lines, i, fixed_lines, content, fi, printed>>
  /\ UNCHANGED env

\* the final print
PrintDone ==
  /\ pc = "written"
  /\ printed' = printed + 1
  /\ pc' = "done"
  /\ UNCHANGED <<disk, exists, rfile, wfile, lines, i, fixed_lines, content, fi, err>>
  /\ UNCHANGED env

\* the same script is started again on the file the previous run left
Rerun ==
  /\ pc = "done" /\ runs < MaxRuns
  /\ runs' = runs + 1
  /\ prev' = fixed_lines
  /\ orig' = disk /\ origExists' = exists
  /\ pc' = "start"
  /\ rfile' = "none" /\ wfile' = "none"
  /\ lines' = <<>> /\ i' = 0 /\ fixed_lines' = <<>>
  /\ content' = <<>> /\ fi' = 1
  /\ printed' = 0 /\ err' = "none"
  /\ UNCHANGED <<script, linesep, disk, exists>>

Next ==
  \/ OpenRead
  \/ OpenReadFail
  \/ ReadFail
  \/ ReadLines
  \/ KeepComplete
  \/ Combine
  \/ PassThrough
  \/ LoopExit
  \/ ReadContent
  \/ ApplyFix
  \/ FixesDone
  \/ OpenWrite
  \/ OpenWriteFail
  \/ WriteLines
  \/ WriteContent
  \/ WriteFail
  \/ PrintDone
  \/ Rerun

Spec == Init /\ [][Next]_vars

\* ------------------------------------------------------------ the claims
\* the repair loop of fix_lines.py has run to its end
AfterLoop == script = 1 /\ pc \in {"towrite", "writing", "written", "done"}

\* C1: a second run of the line scan produces exactly the lines the first
\* run produced; a line joined by the first run is neither altered nor repeated.
C1_Idempotent ==
  (AfterLoop /\ runs = 2) => fixed_lines = prev

\* C2: an iteration of the line scan that meets a line holding both markers
\* puts that line into the output exactly once, unchanged, and moves on by one line.
C2_CompleteLineOnce ==
  [][(pc = "loop" /\ script = 1 /\ i < Len(lines) /\ IsComplete(lines[i + 1]))
       => (fixed_lines' = Append(fixed_lines, lines[i + 1]) /\ i' = i + 1)]_vars

\* the output the join contract of C3 describes: left to right, every pair
\* (first marker on line i, second marker on line i+1) becomes one line
RECURSIVE JoinContract(_)
JoinContract(ls) ==
  IF ls = <<>> THEN <<>>
  ELSE IF Len(ls) >= 2 /\ In(markerA, ls[1]) /\ In(markerB, ls[2])
       THEN <<rstrip(ls[1]) \o <<"s">> \o lstrip(ls[2])>>
              \o JoinContract(SubSeq(ls, 3, Len(ls)))
  ELSE <<ls[1]>> \o JoinContract(Tail(ls))

\* C3: the output of the line scan is the input with every such pair replaced
\* by rstrip(line_i) + " " + lstrip(line_i+1) and every other line passed
\* through unchanged, once, in order.
C3_JoinContract ==
  AfterLoop => fixed_lines = JoinContract(lines)

\* a split occurrence starts on a line with the first marker and not the second
IsSplitHead(line) == In(markerA, line) /\ ~In(markerB, line)
Unrelated(line) == ~In(markerA, line) /\ ~In(markerB, line)

\* the file is made of split occurrences (a head line, then a line with the
\* second marker) and unrelated lines, and of nothing else
OnlySplitsAndUnrelated(ls) ==
  \A j \in 1..Len(ls) :
    /\ IsSplitHead(ls[j]) => (j < Len(ls) /\ In(markerB, ls[j + 1]))
    /\ In(markerB, ls[j]) => (j > 1 /\ IsSplitHead(ls[j - 1]))

CountSplits(ls) == Cardinality({j \in 1..Len(ls) : IsSplitHead(ls[j])})
CountUnrelated(ls) == Cardinality({j \in 1..Len(ls) : Unrelated(ls[j])})

RECURSIVE BreaksToSpaces(_)
BreaksToSpaces(ls) ==
  IF ls = <<>> THEN <<>>
  ELSE IF Len(ls) >= 2 /\ In(markerA, ls[1]) /\ In(markerB, ls[2])
       THEN SubSeq(ls[1], 1, Len(ls[1]) - 1) \o <<"s">> \o ls[2]
              \o BreaksToSpaces(SubSeq(ls, 3, Len(ls)))
  ELSE ls[1] \o BreaksToSpaces(Tail(ls))

\* C5: the characters written by the line scan are the characters read, except
\* that the line break at each matched split point is one space; nothing else
\* is added, removed or changed.
C5_ContentPreserved ==
  AfterLoop => writelines(fixed_lines) = BreaksToSpaces(lines)

\* C6: when the scan reaches the last line and the first marker is on it, no
\* join happens: the line is appended unchanged, once, as the last output line.
C6_MarkerOnLastLine ==
  [][(pc = "loop" /\ script = 1 /\ i + 1 = Len(lines) /\ In(markerA, lines[i + 1]))
       => (fixed_lines' = Append(fixed_lines, lines[i + 1]) /\ i' = i + 1)]_vars

\* no marker anywhere in the text
NoMarkers(text) == ~In(markerA, text) /\ ~In(markerB, text)

\* every line break of the bytes is in the form os.linesep has
NativeBreaks(bytes, sep) ==
  IF sep = <<"n">>
  THEN ~In("r", bytes)
  ELSE \A j \in 1..Len(bytes) :
         /\ bytes[j] = "n" => (j > 1 /\ bytes[j - 1] = "r")
         /\ bytes[j] = "r" => (j < Len(bytes) /\ bytes[j + 1] = "n")

\* C7 as stated: a file in which no line holds a marker is written back
\* identical to the input, by either script.
C7_WrittenBackIdentical ==
  (pc = "done" /\ NoMarkers(orig)) => disk = orig

\* C7 as amended: such a file is written back with the same text, every line
\* break in the platform's form; it is identical to the input when the input's
\* line breaks already have that form.
C7_IdenticalUpToLineBreaks ==
  (pc = "done" /\ NoMarkers(orig)) =>
     /\ Decode(disk) = Decode(orig)
     /\ NativeBreaks(disk, linesep)
     /\ NativeBreaks(orig, linesep) => disk = orig

C7_Witness ==
  /\ pc = "done" /\ script = 1 /\ NoMarkers(orig)
  /\ Len(lines) >= 2 /\ In("x", orig)
  /\ NativeBreaks(orig, linesep) /\ disk = orig

\* the fix loop of fix_lines2.py has run to its end
AfterFixes == script = 2 /\ pc \in {"towrite", "writing", "written", "done"}

\* the known statement, split, without its indentation
SplitStmt == StmtHead \o <<"n", "s">> \o StmtTail

\* the number of spaces right before position p
IndentAt(text, p) ==
  LET NS == {j \in 1..(p - 1) : text[j] # "s"} IN
  IF NS = {} THEN p - 1 ELSE p - 1 - Max(NS)

\* the indentations with which the split statement occurs in the text
SplitIndents(text) == {IndentAt(text, p) : p \in Occurrences(text, SplitStmt)}

\* C8 as stated: the replacement variant changes the content only where one
\* of its two literals occurs, and leaves it unchanged when the split
\* statement is indented by any number of spaces other than 8 or 12.
C8_OnlyExactIndentation ==
  AfterFixes =>
     /\ content # Decode(orig) =>
          (Occurrences(Decode(orig), Before8) # {} \/ Occurrences(Decode(orig), Before12) # {})
     /\ (SplitIndents(Decode(orig)) \cap {8, 12} = {}) => content = Decode(orig)

\* C8 as amended: the content changes only where a literal occurs; it is left
\* unchanged when every split statement has fewer than 8 spaces before it, and
\* a split statement with 8 or more spaces before it is joined.
C8_OnlyEightOrMoreSpaces ==
  AfterFixes =>
     /\ content # Decode(orig) =>
          (Occurrences(Decode(orig), Before8) # {} \/ Occurrences(Decode(orig), Before12) # {})
     /\ (\A k \in SplitIndents(Decode(orig)) : k < 8) => content = Decode(orig)
     /\ (\E k \in SplitIndents(Decode(orig)) : k >= 8) =>
          (content # Decode(orig) /\ \A k \in SplitIndents(content) : k < 8)

C8_Witness ==
  /\ AfterFixes
  /\ SplitIndents(Decode(orig)) # {}
  /\ \A k \in SplitIndents(Decode(orig)) : k < 8
  /\ content = Decode(orig)

\* the lines of a document built from the two known statements
HeadLines == {Spaces(k) \o StmtHead \o <<"n">> : k \in {8, 12}}
TailLines == {<<"s">> \o StmtTail \o e : e \in {<<>>, <<"n">>}}
JoinedLines == {Spaces(k) \o StmtHead \o <<"s">> \o StmtTail \o e :
                  k \in {8, 12}, e \in {<<>>, <<"n">>}}

KnownDoc(ls) ==
  \A j \in 1..Len(ls) :
    \/ Unrelated(ls[j])
    \/ ls[j] \in JoinedLines
    \/ ls[j] \in HeadLines /\ j < Len(ls) /\ ls[j + 1] \in TailLines
    \/ ls[j] \in TailLines /\ j > 1 /\ ls[j - 1] \in HeadLines

\* C9: on a document built from the two known split statements, their joined
\* forms and unrelated lines, the line scan writes what the replacement
\* variant writes.
C9_VariantsAgree ==
  (script = 1 /\ pc = "done" /\ KnownDoc(lines)) =>
     disk = Encode(ApplyFixes(Decode(orig), 1), linesep)

\* C10: the file is read and closed before it is opened for writing; a failed
\* read ends the run in error with the file as it was (not created, not
\* changed) and nothing printed; the message is printed at most once and only
\* after the write is complete.
C10_RunOrdering ==
  /\ wfile # "none" => rfile = "closed"
  /\ err = "read" =>
       (pc = "error" /\ wfile = "none" /\ disk = orig /\ exists = origExists /\ printed = 0)
  /\ printed <= 1
  /\ printed = 1 => (pc = "done" /\ wfile = "closed")

C10_Witness ==
  pc = "error" /\ err = "read" /\ ~exists /\ printed = 0

TypeOK ==
  /\ script \in {1, 2}
  /\ pc \in {"start", "opened", "loop", "fix", "towrite", "writing", "written", "done", "error"}
  /\ i \in 0..(Len(lines) + 1)
  /\ printed \in 0..1
====
